---- MODULE Spec2Model ----
(***************************************************************************)
(* Sealed-bid auction: the AuctionDetail page (src/pages/AuctionDetail.tsx) *)
(* talking to the `auctions` and `bids` tables.                            *)
(*                                                                         *)
(* One AuctionDetail component instance is modelled together with the      *)
(* tables it reads and writes.  Every `await supabase...` splits a         *)
(* function into the part before the request and the continuation that     *)
(* runs when the response arrives; a pending request is a record in the    *)
(* bag `calls` that carries the values its closure captured.               *)
(***************************************************************************)
EXTENDS Integers, Sequences, FiniteSets, Bags

\* ------------------------------------------------------------------ bounds
MaxTime == 4       \* the clock runs 0..MaxTime
MaxAmount == 3     \* amounts typed into the form are 1..MaxAmount
MaxBids == 2       \* rows the bids table can hold
MaxCalls == 2      \* supabase requests pending at once
MaxEvents == 5     \* user interactions in one session

\* ----------------------------------------------------------- value spaces
AuctionIds == {"a1", "a2"}
Users == {"u1", "u2"}
NoUser == "none"
Amounts == 1..MaxAmount

\* useState<number | null>(null)
NullAmount == -1

\* useState<Auction | null>(null)
NoAuction == [id |-> "none", start_price |-> 0, end_time |-> 0, status |-> "none"]

\* useState<Winner | null>(null)
NoWinnerState == [user_name |-> "none", bid_amount |-> 0]

\* the strings given to setError
NoError == "null"
SignInMsg == "Please sign in to place a bid"
AlreadyBidMsg == "You have already placed a bid for this auction. One bid per item is allowed and cannot be modified."
BasePriceMsg == "Bid amount must be higher than the base price"
FetchFailedMsg == "Failed to fetch auction details"
PlaceFailedMsg == "Failed to place bid"
\* the message of the error the table gives for a second (auction, bidder) row
DuplicateKeyMsg == "duplicate key value violates unique constraint"

\* The rows of the `auctions` table the page can be pointed at.  Nothing in
\* the source writes this table, so the rows are fixed: a1 is active with
\* the lower base price, a2 was never activated and closes first; a1 is
\* still open when a2 has closed, and closes before the clock stops.
StartPrice == [a \in AuctionIds |-> IF a = "a1" THEN 1 ELSE 2]
StoredStatus == [a \in AuctionIds |-> IF a = "a1" THEN "active" ELSE "draft"]

\* A row another session may have inserted before this page mounts (time 0):
\* u2 bid 2 on a1 (base price 1) while a1 was open.
OtherSessionBid == [auction_id |-> "a1", bidder_id |-> "u2", amount |-> 2, created_at |-> -1]
EndTime == [a \in AuctionIds |-> IF a = "a1" THEN 3 ELSE 1]

VARIABLES
    \* storage
    auctions,           \* auctions table: id -> row
    bids,               \* bids table, in insertion order
    uniqueConstraint,   \* whether the bids table rejects a second (auction, bidder) row
    now,                \* wall clock
    \* component state (useParams, useState, useAuth)
    id, auction, loading, error, bidAmount, hasUserBid, userBidAmount,
    winner, user,
    isEnded,            \* the const of the last render
    \* pending supabase requests with their captured closures
    calls,
    \* number of user interactions so far (navigation, sign-in change, input, submit)
    events,
    \* the pages Auctions and Home: their useState values and pending requests
    listedAuctions, listLoading, listError, featuredAuctions, homeLoading,
    listCalls

dbVars == <<auctions, bids, uniqueConstraint>>
viewState == <<id, auction, loading, error, bidAmount, hasUserBid, userBidAmount,
               winner, user>>
listVars == <<listedAuctions, listLoading, listError, featuredAuctions, homeLoading,
              listCalls>>
vars == <<auctions, bids, uniqueConstraint, now, id, auction, loading, error,
          bidAmount, hasUserBid, userBidAmount, winner, user,
          isEnded, calls, events, listVars>>

\* ---------------------------------------------------------------- helpers
\* const isEnded = auction ? new Date(auction.end_time) < new Date() : false
ComputeIsEnded(auc, t) == IF auc = NoAuction THEN FALSE ELSE auc.end_time < t

\* bidder:bidder_id ( full_name )
FullName(u) == u

\* A pending request: the operation awaiting it and the values of its closure.
\* late and prior record what held when handleBidSubmit was invoked: the
\* end_time of auction id had passed; the table held a bid of user for id.
Call(op, cid, cuser, cauction, camount, clate, cprior, ccreated) ==
    [op |-> op, id |-> cid, user |-> cuser, auction |-> cauction,
     bidAmount |-> camount, late |-> clate, prior |-> cprior,
     created_at |-> ccreated]

Pending == BagToSet(calls)
Issue(c) == SetToBag({c})
NumCalls == BagCardinality(calls)
SubmitOps == {"bidCheck", "insert"}

\* rows of bids with .eq('auction_id', a).eq('bidder_id', u)
BidIdx == 1..Len(bids)
RowsOf(a, u) == {i \in BidIdx : bids[i].auction_id = a /\ bids[i].bidder_id = u}
RowsOfAuction(a) == {i \in BidIdx : bids[i].auction_id = a}

\* A state change re-renders the component and re-evaluates isEnded; a clock
\* tick alone does not.
Rerender ==
    isEnded' = IF viewState' # viewState
               THEN ComputeIsEnded(auction', now')
               ELSE isEnded

\* ------------------------------------------------------------------- Init
\* The effect of the first render: fetchAuctionDetails(); checkUserBid();
\* isEnded is false because auction is still null.
MountEffect(rid, u, ended) ==
    Issue(Call("fetchAuctionDetails", rid, NoUser, NoAuction, 0, FALSE, FALSE, 0))
    (+) (IF u # NoUser THEN Issue(Call("checkUserBid", rid, u, NoAuction, 0, FALSE, FALSE, 0))
         ELSE EmptyBag)
    (+) (IF ended THEN Issue(Call("fetchWinnerDetails", rid, NoUser, NoAuction, 0, FALSE, FALSE, 0))
         ELSE EmptyBag)

\* Auctions and Home are other routes: not on screen with the detail page
ListPagesUnmounted ==
    /\ listedAuctions = << >>
    /\ listLoading = TRUE
    /\ listError = NoError
    /\ featuredAuctions = << >>
    /\ homeLoading = TRUE
    /\ listCalls = {}

Init ==
    /\ auctions = [a \in AuctionIds |->
                      [id |-> a, start_price |-> StartPrice[a],
                       end_time |-> EndTime[a], status |-> StoredStatus[a]]]
    /\ bids \in {<< >>, <<OtherSessionBid>>}
    /\ uniqueConstraint \in BOOLEAN
    /\ now = 0
    /\ id \in AuctionIds
    /\ auction = NoAuction
    /\ loading = TRUE
    /\ error = NoError
    /\ bidAmount = 0
    /\ hasUserBid = FALSE
    /\ userBidAmount = NullAmount
    /\ winner = NoWinnerState
    /\ user \in Users \cup {NoUser}
    /\ isEnded = FALSE
    /\ calls = MountEffect(id, user, FALSE)
    /\ events = 0
    /\ ListPagesUnmounted

\* ---------------------------------------------------------------- actions
UserEvent ==
    /\ events < MaxEvents
    /\ events' = events + 1

Tick ==
    /\ UNCHANGED listVars
    /\ now < MaxTime
    /\ now' = now + 1
    /\ UNCHANGED <<dbVars, viewState, isEnded, calls, events>>

\* useEffect(() => {...}, [id]): the route id changes inside the mounted
\* component; the render for the new id evaluates isEnded from the auction
\* still held in state, and the effect of that render runs.
Navigate(newId) ==
    /\ UNCHANGED listVars
    /\ newId # id
    /\ UserEvent
    /\ LET ended == ComputeIsEnded(auction, now)
           effect == MountEffect(newId, user, ended)
       IN /\ NumCalls + BagCardinality(effect) <= MaxCalls
          /\ calls' = calls (+) effect
          /\ isEnded' = ended
    /\ id' = newId
    /\ UNCHANGED <<dbVars, now, auction, loading, error, bidAmount, hasUserBid,
                   userBidAmount, winner, user>>

\* useAuth(): the signed-in user changes (sign-in, sign-out, other account)
SetUser(u) ==
    /\ UNCHANGED listVars
    /\ u # user
    /\ UserEvent
    /\ user' = u
    /\ UNCHANGED <<dbVars, now, id, auction, loading, error, bidAmount, hasUserBid,
                   userBidAmount, winner, calls>>
    /\ Rerender

\* the early returns of the component and the gate {!isEnded && !hasUserBid && (...)}
FormRendered ==
    /\ ~loading
    /\ error = NoError
    /\ auction # NoAuction
    /\ ~isEnded
    /\ ~hasUserBid

\* onChange={(e) => setBidAmount(Number(e.target.value))}
SetBidAmount(n) ==
    /\ UNCHANGED listVars
    /\ FormRendered
    /\ n # bidAmount
    /\ UserEvent
    /\ bidAmount' = n
    /\ UNCHANGED <<dbVars, now, id, auction, loading, error, hasUserBid,
                   userBidAmount, winner, user, calls>>
    /\ Rerender

\* fetchAuctionDetails, from the response on
FetchAuctionDetailsResp(c, fails) ==
    /\ UNCHANGED listVars
    /\ c \in Pending
    /\ c.op = "fetchAuctionDetails"
    /\ UNCHANGED events
    /\ calls' = calls (-) Issue(c)
    /\ IF fails
       THEN /\ error' = FetchFailedMsg
            /\ UNCHANGED <<auction, bidAmount>>
       ELSE /\ auction' = auctions[c.id]
            /\ bidAmount' = auctions[c.id].start_price
            /\ UNCHANGED error
    /\ loading' = FALSE
    /\ UNCHANGED <<dbVars, now, id, hasUserBid, userBidAmount, winner, user>>
    /\ Rerender

\* .maybeSingle(): the row when exactly one matches, otherwise no data
\* (several rows give error PGRST116 and data null)
HasSingle(rows) == Cardinality(rows) = 1
TheSingle(rows) == CHOOSE i \in rows : TRUE

\* checkUserBid, from the response on
CheckUserBidResp(c, fails) ==
    /\ UNCHANGED listVars
    /\ c \in Pending
    /\ c.op = "checkUserBid"
    /\ UNCHANGED events
    /\ calls' = calls (-) Issue(c)
    /\ LET rows == RowsOf(c.id, c.user)
       IN IF fails
          THEN UNCHANGED <<hasUserBid, userBidAmount>>
          ELSE /\ hasUserBid' = HasSingle(rows)
               /\ userBidAmount' = IF HasSingle(rows)
                                   THEN bids[TheSingle(rows)].amount
                                   ELSE userBidAmount
    /\ UNCHANGED <<dbVars, now, id, auction, loading, error, bidAmount, winner,
                   user>>
    /\ Rerender

\* .order('amount', { ascending: false }).limit(1): a row of the auction no
\* other row of the auction exceeds; rows of equal amount come in no
\* specified order.
TopRowsUnordered(a) == RowsOfAuction(a)
TopRows(a) ==
    {i \in RowsOfAuction(a) : \A j \in RowsOfAuction(a) : bids[j].amount <= bids[i].amount}

\* fetchWinnerDetails, from the response on
FetchWinnerDetailsResp(c, fails) ==
    /\ UNCHANGED listVars
    /\ c \in Pending
    /\ c.op = "fetchWinnerDetails"
    /\ UNCHANGED events
    /\ calls' = calls (-) Issue(c)
    /\ IF fails
       THEN UNCHANGED winner
       ELSE IF RowsOfAuction(c.id) = {}
            THEN \* .single() on zero rows is an error: thrown, caught, logged
                 UNCHANGED winner
            ELSE \E i \in TopRows(c.id) :
                 winner' = [user_name |-> FullName(bids[i].bidder_id),
                            bid_amount |-> bids[i].amount]
    /\ UNCHANGED <<dbVars, now, id, auction, loading, error, bidAmount, hasUserBid,
                   userBidAmount, user>>
    /\ Rerender

HandleBidSubmitUnguarded ==
    /\ UNCHANGED listVars
    /\ FormRendered
    /\ UserEvent
    /\ NumCalls < MaxCalls
    /\ calls' = calls (+) Issue(Call("bidCheck", id, user, auction, bidAmount,
                                     auctions[id].end_time < now,
                                     RowsOf(id, user) # {}, 0))
    /\ error' = IF user = NoUser THEN SignInMsg ELSE error
    /\ UNCHANGED <<dbVars, now, id, auction, loading, bidAmount, hasUserBid,
                   userBidAmount, winner, user>>
    /\ Rerender

\* handleBidSubmit up to the first await
HandleBidSubmit ==
    /\ UNCHANGED listVars
    /\ FormRendered
    /\ UserEvent
    /\ IF user = NoUser
       THEN /\ error' = SignInMsg
            /\ UNCHANGED calls
       ELSE /\ NumCalls < MaxCalls
            /\ calls' = calls (+) Issue(Call("bidCheck", id, user, auction, bidAmount,
                                             auctions[id].end_time < now,
                                             RowsOf(id, user) # {}, 0))
            /\ UNCHANGED error
    /\ UNCHANGED <<dbVars, now, id, auction, loading, bidAmount, hasUserBid,
                   userBidAmount, winner, user>>
    /\ Rerender

\* handleBidSubmit from the answer of the existence read to the insert request
BidCheckResp(c, fails) ==
    /\ UNCHANGED listVars
    /\ c \in Pending
    /\ c.op = "bidCheck"
    /\ UNCHANGED events
    /\ LET rows == RowsOf(c.id, c.user)
           found == ~fails /\ HasSingle(rows)
       IN IF found
          THEN /\ error' = AlreadyBidMsg
               /\ hasUserBid' = TRUE
               /\ userBidAmount' = bids[TheSingle(rows)].amount
               /\ calls' = calls (-) Issue(c)
          ELSE IF c.auction = NoAuction \/ c.bidAmount <= c.auction.start_price
               THEN /\ error' = BasePriceMsg
                    /\ calls' = calls (-) Issue(c)
                    /\ UNCHANGED <<hasUserBid, userBidAmount>>
               ELSE /\ calls' = (calls (-) Issue(c))
                                (+) Issue([c EXCEPT !.op = "insert", !.created_at = now])
                    /\ UNCHANGED <<error, hasUserBid, userBidAmount>>
    /\ UNCHANGED <<dbVars, now, id, auction, loading, bidAmount, winner, user>>
    /\ Rerender

\* the bids table executing .insert([...])
Rejects(c) == uniqueConstraint /\ RowsOf(c.id, c.user) # {}

\* .from('bids').insert([{ auction_id: id, bidder_id: user.id, amount: bidAmount,
\* created_at }]): the table with the new row added
NewRow(c) ==
    [auction_id |-> c.id, bidder_id |-> c.user, amount |-> c.bidAmount,
     created_at |-> c.created_at]
UpsertRow(c) ==
    IF RowsOf(c.id, c.user) = {}
    THEN Append(bids, NewRow(c))
    ELSE [i \in BidIdx |-> IF i \in RowsOf(c.id, c.user) THEN NewRow(c) ELSE bids[i]]
InsertRow(c) == Append(bids, NewRow(c))

\* setError(err instanceof Error ? err.message : 'Failed to place bid'): the
\* error object of a rejected insert is an Error or a plain object, depending
\* on the version of the client library
CaughtInsertMsgs(c, fails) ==
    IF ~fails /\ Rejects(c) THEN {PlaceFailedMsg, DuplicateKeyMsg} ELSE {PlaceFailedMsg}

\* handleBidSubmit from the answer of the insert on
InsertResp(c, fails) ==
    /\ UNCHANGED listVars
    /\ c \in Pending
    /\ c.op = "insert"
    /\ UNCHANGED events
    /\ calls' = calls (-) Issue(c)
    /\ IF fails \/ Rejects(c)
       THEN /\ error' \in CaughtInsertMsgs(c, fails)
            /\ UNCHANGED <<bids, hasUserBid, userBidAmount>>
       ELSE /\ Len(bids) < MaxBids
            /\ bids' = InsertRow(c)
            /\ hasUserBid' = TRUE
            /\ userBidAmount' = c.bidAmount
            /\ error' = NoError
    /\ UNCHANGED <<auctions, uniqueConstraint, now, id, auction, loading, bidAmount,
                   winner, user>>
    /\ Rerender

Next ==
    \/ Tick
    \/ \E a \in AuctionIds : Navigate(a)
    \/ \E u \in Users \cup {NoUser} : SetUser(u)
    \/ \E n \in Amounts : SetBidAmount(n)
    \/ HandleBidSubmit
    \/ \E c \in Pending, fails \in BOOLEAN : FetchAuctionDetailsResp(c, fails)
    \/ \E c \in Pending, fails \in BOOLEAN : CheckUserBidResp(c, fails)
    \/ \E c \in Pending, fails \in BOOLEAN : FetchWinnerDetailsResp(c, fails)
    \/ \E c \in Pending, fails \in BOOLEAN : BidCheckResp(c, fails)
    \/ \E c \in Pending, fails \in BOOLEAN : InsertResp(c, fails)

Spec == Init /\ [][Next]_vars

TypeOK ==
    /\ now \in 0..MaxTime
    /\ Len(bids) <= MaxBids
    /\ NumCalls <= MaxCalls
    /\ events \in 0..MaxEvents

\* ------------------------------------------------- outcomes of a submission
\* The typed outcome a message given to setError stands for.
Outcome(msg) ==
    CASE msg = NoError -> "Success"
      [] msg = SignInMsg -> "Unauthorized"
      [] msg = AlreadyBidMsg -> "Conflict"
      [] msg = BasePriceMsg -> "Validation"
      [] OTHER -> "Error"

\* this step runs the continuation of pending request c
Consumed(c) == CopiesIn(c, calls') < CopiesIn(c, calls)
\* this step runs a continuation of handleBidSubmit for request c
SubmitStep(c) == c.op \in SubmitOps /\ Consumed(c)
\* ... and the invocation returns in this step (no further request is issued)
Returns(c) == SubmitStep(c) /\ BagCardinality(calls') < BagCardinality(calls)

HasPassed(a, t) == auctions[a].end_time < t
StillOpen(a, t) == t < auctions[a].end_time


\* ------------------------------------------- the pages Auctions and Home
\* status: 'draft' | 'active' | 'ended' | 'cancelled'
Statuses == {"draft", "active", "ended", "cancelled"}

\* The rows of the `auctions` table the list pages read: four auctions, so
\* that .limit(3) cuts; a1 and a3 close at 1, a2 and a4 at 3; created in the
\* order a1, a2, a3, a4.
ListedIds == {"a1", "a2", "a3", "a4"}
ListStartPrice == [a \in ListedIds |-> IF a \in {"a1", "a3"} THEN 1 ELSE 2]
ListEndTime == [a \in ListedIds |-> IF a \in {"a1", "a3"} THEN 1 ELSE 3]
AuctionCreatedAt ==
    [a \in ListedIds |-> CASE a = "a1" -> -4 [] a = "a2" -> -3 [] a = "a3" -> -2 [] OTHER -> -1]

\* .limit(3)
FeaturedLimit == 3

\* the detail page is not on screen
DetailPageUnmounted ==
    /\ bids = << >>
    /\ uniqueConstraint = FALSE
    /\ id = "a1"
    /\ auction = NoAuction
    /\ loading = TRUE
    /\ error = NoError
    /\ bidAmount = 0
    /\ hasUserBid = FALSE
    /\ userBidAmount = NullAmount
    /\ winner = NoWinnerState
    /\ user = NoUser
    /\ isEnded = FALSE
    /\ calls = EmptyBag
    /\ events = 0

\* Both pages mounted: useEffect(() => { fetchAuctions(); }, []) and
\* useEffect(() => { fetchFeaturedAuctions(); }, [])
ListInit ==
    /\ auctions \in {[a \in ListedIds |->
                         [id |-> a, start_price |-> ListStartPrice[a],
                          end_time |-> ListEndTime[a], status |-> st[a]]] :
                     st \in [ListedIds -> Statuses]}
    /\ now = 0
    /\ DetailPageUnmounted
    /\ listedAuctions = << >>
    /\ listLoading = TRUE
    /\ listError = NoError
    /\ featuredAuctions = << >>
    /\ homeLoading = TRUE
    /\ listCalls = {"fetchAuctions", "fetchFeaturedAuctions"}

\* .eq('status', 'active')
ActiveRows == {a \in DOMAIN auctions : auctions[a].status = "active"}

\* .order(column): the orders of the rows of S that agree with the column;
\* rows of equal value come in no specified order
Orders(S) == {f \in [1..Cardinality(S) -> S] : \A i, j \in DOMAIN f : f[i] = f[j] => i = j}
ByEndTimeAscending(S) ==
    {f \in Orders(S) : \A i, j \in DOMAIN f :
        i < j => auctions[f[i]].end_time <= auctions[f[j]].end_time}
ByCreatedAtDescending(S) ==
    {f \in Orders(S) : \A i, j \in DOMAIN f :
        i < j => AuctionCreatedAt[f[i]] >= AuctionCreatedAt[f[j]]}
Limit(f, n) == SubSeq(f, 1, IF Len(f) < n THEN Len(f) ELSE n)

\* the columns each page selects
ListedRow(a) == auctions[a]
FeaturedRow(a) ==
    [id |-> a, start_price |-> auctions[a].start_price, end_time |-> auctions[a].end_time]

FetchListFailedMsg == "Failed to fetch auctions"

\* fetchAuctions, from the response on
FetchAuctionsResp(fails) ==
    /\ "fetchAuctions" \in listCalls
    /\ listCalls' = listCalls \ {"fetchAuctions"}
    /\ IF fails
       THEN /\ listError' = FetchListFailedMsg
            /\ UNCHANGED listedAuctions
       ELSE /\ \E f \in ByEndTimeAscending(ActiveRows) :
                 listedAuctions' = [i \in DOMAIN f |-> ListedRow(f[i])]
            /\ UNCHANGED listError
    /\ listLoading' = FALSE
    /\ UNCHANGED <<dbVars, now, viewState, isEnded, calls, events, featuredAuctions,
                   homeLoading>>

\* fetchFeaturedAuctions, from the response on
FetchFeaturedAuctionsResp(fails) ==
    /\ "fetchFeaturedAuctions" \in listCalls
    /\ listCalls' = listCalls \ {"fetchFeaturedAuctions"}
    /\ IF fails
       THEN UNCHANGED featuredAuctions
       ELSE \E f \in ByCreatedAtDescending(ActiveRows) :
               featuredAuctions' = [i \in DOMAIN Limit(f, FeaturedLimit) |-> FeaturedRow(f[i])]
    /\ homeLoading' = FALSE
    /\ UNCHANGED <<dbVars, now, viewState, isEnded, calls, events, listedAuctions,
                   listLoading, listError>>

ListNext ==
    \/ Tick
    \/ \E fails \in BOOLEAN : FetchAuctionsResp(fails)
    \/ \E fails \in BOOLEAN : FetchFeaturedAuctionsResp(fails)

ListSpec == ListInit /\ [][ListNext]_vars

\* ------------------------------------------------------------------ claims

\* C1: in every reachable state the bids table holds at most one bid per
\* (auction, bidder) pair, whatever the interleaving of submissions.
C1_OneBidPerBidder ==
    \A i, j \in BidIdx :
        (bids[i].auction_id = bids[j].auction_id /\ bids[i].bidder_id = bids[j].bidder_id)
            => i = j

\* C2: a submission invoked after the auction's end_time has passed inserts
\* no bid and returns with the InvalidState outcome.
C2_LateSubmissionRejected ==
    [][\A c \in Pending :
          (SubmitStep(c) /\ c.late)
              => /\ bids' = bids
                 /\ Returns(c) => Outcome(error') = "InvalidState"]_vars

\* C3: no bid is ever admitted for an auction whose status is not active.
C3_OnlyActiveAuctionsAdmitBids ==
    \A i \in BidIdx : auctions[bids[i].auction_id].status = "active"

\* C4: a submission invoked when the bidder's bid for the auction is already
\* stored creates no second record and returns with the Conflict outcome.
C4_ResubmissionIsConflict ==
    [][\A c \in Pending :
          (SubmitStep(c) /\ c.prior)
              => /\ bids' = bids
                 /\ Returns(c) => Outcome(error') = "Conflict"]_vars

\* C5: a submission with amount <= start_price of its auction inserts no bid
\* and returns with the Validation outcome, also when the bidder already
\* holds a bid on the auction.
C5_FloorIsValidation ==
    [][\A c \in Pending :
          (SubmitStep(c) /\ c.bidAmount <= auctions[c.id].start_price)
              => /\ bids' = bids
                 /\ Returns(c) => Outcome(error') = "Validation"]_vars

\* C6: every stored bid has an amount strictly greater than the start_price
\* of the auction it belongs to.
C6_BidsAboveStartPrice ==
    \A i \in BidIdx : bids[i].amount > auctions[bids[i].auction_id].start_price

\* the rows of maximum amount created no later than any other such row
EarliestTopRows(a) ==
    {i \in TopRows(a) : \A j \in TopRows(a) : bids[i].created_at <= bids[j].created_at}
WinnerOf(i) == [user_name |-> FullName(bids[i].bidder_id), bid_amount |-> bids[i].amount]

\* every bid of auction a was created before its end_time
AdmittedInTime(a) == \A i \in RowsOfAuction(a) : bids[i].created_at < auctions[a].end_time

\* C7: when several bids of an ended auction share the maximum amount, the
\* winner a resolution puts in the view is the one created earliest (stated
\* for auctions all of whose bids were created before end_time).
C7_TieGoesToEarliest ==
    [][\A c \in Pending :
          (c.op = "fetchWinnerDetails" /\ Consumed(c) /\ HasPassed(c.id, now)
             /\ AdmittedInTime(c.id) /\ winner' # winner)
              => winner' \in {WinnerOf(i) : i \in EarliestTopRows(c.id)}]_vars

\* C8: for a fixed set of bids a pending winner query has exactly one
\* possible answer, so any two invocations return the same winner and amount.
C8_ResolutionDeterministic ==
    \A c \in Pending :
        c.op = "fetchWinnerDetails"
            => Cardinality({WinnerOf(i) : i \in TopRows(c.id)}) <= 1

\* C9: once the end_time of an auction has passed, the answer of its winner
\* query no longer changes: there is one answer and no step alters it.
C9_WinnerStableAfterClose ==
    [][\A a \in AuctionIds :
          HasPassed(a, now)
              => /\ Cardinality({WinnerOf(i) : i \in TopRows(a)}) <= 1
                 /\ {WinnerOf(i) : i \in TopRows(a)}' = {WinnerOf(i) : i \in TopRows(a)}]_vars

\* C10: while an auction has not ended, no read puts in the view the bidder
\* and amount of the auction's highest bid when that bid is not the actor's.
C10_NoPreCloseDisclosure ==
    [][\A c \in Pending :
          (c.op = "fetchWinnerDetails" /\ Consumed(c) /\ StillOpen(c.id, now)
             /\ winner' # winner)
              => winner'.user_name = FullName(user)]_vars

\* the page past its early returns: neither the spinner nor the error page
PageRendered ==
    /\ ~loading
    /\ error = NoError
    /\ auction # NoAuction

\* every request has been answered: without a further interaction the view
\* no longer changes
Settled == calls = EmptyBag

\* C11: whenever the detail view is loaded for an auction whose end_time has
\* passed and which has at least one bid, the view eventually holds and shows
\* the winner: once every request of the view has been answered, a view that
\* renders the auction of its route as ended holds a winner.
C11_EndedViewShowsWinner ==
    (/\ Settled
     /\ PageRendered
     /\ auction.id = id
     /\ isEnded
     /\ RowsOfAuction(id) # {})
    => winner # NoWinnerState

\* {isEnded && winner && (...)}: the winner panel is on the page
WinnerPanelShown ==
    /\ PageRendered
    /\ isEnded
    /\ winner # NoWinnerState

\* C12: after an auction has ended, the only bid amount and bidder identity an
\* actor can observe is that of the winning bid: the winner panel never shows
\* the bidder and amount of a bid of an ended auction that is not a highest
\* bid of that auction to an actor who does not own the bid (the bids of the
\* auction all being submitted before its end_time).
C12_OnlyWinningBidObservable ==
    \A i \in BidIdx :
       (/\ HasPassed(bids[i].auction_id, now)
        /\ AdmittedInTime(bids[i].auction_id)
        /\ i \notin TopRows(bids[i].auction_id)
        /\ bids[i].bidder_id # user
        /\ WinnerPanelShown)
       => winner # WinnerOf(i)

\* the step sends request c
Issued(c) == CopiesIn(c, calls') > CopiesIn(c, calls)

\* C13: winner resolution is performed only for an ended auction: no winner
\* query is sent for an auction whose end_time has not passed, whatever
\* auction was displayed before.
C13_ResolutionOnlyWhenEnded ==
    [][\A c \in BagToSet(calls') :
          (c.op = "fetchWinnerDetails" /\ Issued(c)) => ~StillOpen(c.id, now)]_vars

\* C14: resolving an ended auction that has zero bids yields NoWinner as a
\* normal outcome: when the winner query of the displayed auction, ended and
\* without bids, is answered, no error is reported and the page shows no
\* winner.
C14_ZeroBidsNoWinner ==
    [][\A c \in Pending :
          (/\ c.op = "fetchWinnerDetails"
           /\ Consumed(c)
           /\ c.id = id
           /\ auction.id = id
           /\ HasPassed(c.id, now)
           /\ RowsOfAuction(c.id) = {})
          => /\ error' = error
             /\ ~WinnerPanelShown']_vars

\* C15: for an ended auction with a non-empty bid set, the winner a
\* resolution produces is a bid of that auction and no stored bid of the
\* auction has a larger amount.
C15_WinnerHasMaxAmount ==
    [][\A c \in Pending :
          (/\ c.op = "fetchWinnerDetails"
           /\ Consumed(c)
           /\ HasPassed(c.id, now)
           /\ RowsOfAuction(c.id) # {}
           /\ winner' # winner)
          => /\ \E i \in RowsOfAuction(c.id) : winner' = WinnerOf(i)
             /\ \A j \in RowsOfAuction(c.id) : bids[j].amount <= winner'.bid_amount]_vars

\* the page of an ended auction with a lower and a higher bid shows the
\* bidder and amount of the higher one
C15_Witness ==
    /\ WinnerPanelShown
    /\ auction.id = id
    /\ HasPassed(id, now)
    /\ AdmittedInTime(id)
    /\ \E i, j \in RowsOfAuction(id) :
          /\ bids[j].amount < bids[i].amount
          /\ winner = WinnerOf(i)

\* C16: a submission that violates several preconditions reports the first
\* violated one in the order NotFound, InvalidState, Validation, Conflict: a
\* submission to an existing, active, open auction with an amount not above
\* start_price by a bidder who already bid returns Validation, not Conflict.
C16_ValidationBeforeConflict ==
    [][\A c \in Pending :
          (/\ Returns(c)
           /\ auctions[c.id].status = "active"
           /\ ~c.late
           /\ c.bidAmount <= auctions[c.id].start_price
           /\ c.prior)
          => Outcome(error') = "Validation"]_vars

\* C17: a bid, once stored, is permanent: every step of the program leaves
\* each stored bid in the store with the same auction, bidder, amount and
\* created_at.
C17_BidsArePermanent ==
    [][/\ Len(bids') >= Len(bids)
       /\ \A i \in BidIdx : bids'[i] = bids[i]]_vars

\* the page stored a bid, and it is still there after the page stored another
C17_Witness ==
    /\ Len(bids) = 2
    /\ bids[1].created_at >= 0

\* C18: when the storage layer rejects the insert of a bid because a bid of
\* the same (auction, bidder) exists, the submission's outcome is Conflict,
\* the duplicate-bid outcome.
C18_StorageRejectionIsConflict ==
    [][\A c \in Pending :
          (c.op = "insert" /\ Consumed(c) /\ Rejects(c))
              => Outcome(error') = "Conflict"]_vars

\* C19: the auction is treated as ended if and only if end_time <= now, in
\* particular at the instant now = end_time: every render of a loaded auction
\* evaluates isEnded to that comparison.
C19_EndedIffEndTimeReached ==
    [][(viewState' # viewState /\ auction' # NoAuction)
          => (isEnded' <=> auction'.end_time <= now')]_vars

\* the rows of a list
Rows(list) == {list[i] : i \in DOMAIN list}

\* active according to the status authority: stored status active and end_time
\* not passed
ActiveByAuthority(a, t) == auctions[a].status = "active" /\ ~HasPassed(a, t)

\* C20: listing active auctions returns only auctions that are active
\* according to the status authority: when the list of active auctions or the
\* featured auctions are set, no row is of an auction whose end_time has
\* passed or whose stored status is not active.
C20_ListsOnlyActiveAuctions ==
    [][/\ listedAuctions' # listedAuctions
          => \A r \in Rows(listedAuctions') : ActiveByAuthority(r.id, now)
       /\ featuredAuctions' # featuredAuctions
          => \A r \in Rows(featuredAuctions') : ActiveByAuthority(r.id, now)]_vars

\* C21: the active -> ended transition is persisted lazily: after the detail
\* of an auction is loaded, or a bid for it is submitted, while its stored
\* status is active and its end_time has passed, its stored status is ended.
C21_EndedIsPersisted ==
    [][\A c \in Pending :
          (/\ c.op \in {"fetchAuctionDetails", "bidCheck", "insert"}
           /\ Consumed(c)
           /\ c.op = "fetchAuctionDetails" => (auction'.id = c.id /\ error' = error)
           /\ auctions[c.id].status = "active"
           /\ HasPassed(c.id, now))
          => auctions'[c.id].status = "ended"]_vars

\* rows of (a, u) the page itself inserted
InsertedByView(a, u) == {i \in RowsOf(a, u) : bids[i].created_at >= 0}

\* C22: if a handleBidSubmit invocation of the view inserted a bid, then once
\* every in-flight invocation has completed the view is in the success state:
\* hasUserBid is true, userBidAmount is the amount stored for (auction, user)
\* and error is null.
C22_SuccessStateAfterSubmits ==
    [][\A c \in Pending :
          (/\ Returns(c)
           /\ \A d \in BagToSet(calls') : d.op \notin SubmitOps
           /\ c.id = id /\ c.user = user
           /\ InsertedByView(c.id, c.user)' # {})
          => /\ hasUserBid'
             /\ error' = NoError
             /\ \E i \in RowsOf(c.id, c.user)' : userBidAmount' = bids'[i].amount]_vars

\* C23: in every state in which the view shows a winner, that winner is a bid
\* of the auction identified by the route id, whatever navigations came
\* before: also once the view displays the auction of the route and every
\* request has been answered.
C23_WinnerBelongsToRoute ==
    (WinnerPanelShown /\ auction.id = id /\ Settled)
        => \E i \in RowsOfAuction(id) : winner = WinnerOf(i)

\* {!isEnded && hasUserBid && (...)}: the panel with the actor's own bid
OwnBidPanelShown ==
    /\ PageRendered
    /\ ~isEnded
    /\ hasUserBid

\* C24: in every state in which the view shows the actor's own sealed bid
\* with amount X, the bid store holds a bid of the signed-in user for the
\* auction of the route id with amount X, across changes of the signed-in
\* user and of the route id: also once the view displays the auction of the
\* route and every request has been answered.
C24_OwnBidPanelMatchesStore ==
    (OwnBidPanelShown /\ auction.id = id /\ Settled)
        => \E i \in RowsOf(id, user) : bids[i].amount = userBidAmount

\* C25: handleBidSubmit performs the insert only after its existence read
\* completed successfully and reported no bid for (auction, user).  With
\* exactly one such bid in the table a successful read reports it, so an
\* answer of the read that is followed by the insert is a failed read: no
\* insert is sent then.
C25_NoInsertAfterFailedRead ==
    [][\A c \in Pending :
          (c.op = "bidCheck" /\ Consumed(c) /\ HasSingle(RowsOf(c.id, c.user)))
              => \A d \in BagToSet(calls') : ~(d.op = "insert" /\ Issued(d))]_vars

\* C26: every handleBidSubmit invocation that ends in a rejection leaves the
\* bid store unchanged, and a submission with no signed-in actor is rejected
\* before any storage read or write is issued.
C26_RejectionsLeaveStoreUnchanged ==
    [][/\ \A c \in Pending : (c.op = "bidCheck" /\ Returns(c)) => bids' = bids
       /\ (user = NoUser /\ error # SignInMsg /\ error' = SignInMsg)
             => (bids' = bids /\ calls' = calls)]_vars

\* an anonymous submission was rejected with the sign-in message
C26_Witness ==
    /\ user = NoUser
    /\ error = SignInMsg

====
